---------------------------- MODULE Spec2Model ----------------------------
(***************************************************************************)
(* Employee management system (Django): the per-account form-field schema  *)
(* (FormField), the per-account employee records (Employee) and the        *)
(* request handlers of employee/views.py that read and write them, through *)
(* the HTML views and through the REST API views.                          *)
(*                                                                         *)
(* One action is one request served by one handler.  Texts (labels, values,*)
(* field types, search terms) are atoms of the state; Chars gives the      *)
(* characters of each, which is what serialisation and search work on.     *)
(***************************************************************************)
EXTENDS Integers, Sequences, FiniteSets, TLC

VARIABLES
    formFields,   \* table employee_formfield: id -> row
    employees,    \* table employee_employee: id -> row
    nextFieldId,  \* AUTOINCREMENT counter of employee_formfield
    nextEmpId,    \* AUTOINCREMENT counter of employee_employee
    reorders,     \* update_field_order requests in progress: process -> request
    lastOp        \* the request served last and its response

vars == <<formFields, employees, nextFieldId, nextEmpId, reorders, lastOp>>

---------------------------------------------------------------------------
(* Bounds of the model *)

\* rows ever inserted into employee_formfield
MaxFields == 2
\* rows ever inserted into employee_employee
MaxEmps == 2

---------------------------------------------------------------------------
(* Accounts, texts and inputs *)

\* authenticated accounts (request.user); login_required / IsAuthenticated
Users == {"A", "B"}

\* Python's None: request.POST.get of a missing key, a key absent from JSON
None == "~None"

\* FormField.FIELD_TYPES: the stored values of the choices
FIELD_TYPES ==
    {"text", "number", "date", "email", "password", "textarea", "checkbox", "select"}

\* the characters of every text the model uses
Chars ==
    [t \in {"nm", "id", "Al", "al", "AL", "l", "zz", "text", "TEXT", "date",
            "number", "email", "password", "textarea", "checkbox", "select",
            "bogus", "value", "type", "null", ""} |->
        CASE t = "nm" -> <<"n", "m">>
          [] t = "id" -> <<"i", "d">>
          [] t = "Al" -> <<"A", "l">>
          [] t = "al" -> <<"a", "l">>
          [] t = "AL" -> <<"A", "L">>
          [] t = "l" -> <<"l">>
          [] t = "zz" -> <<"z", "z">>
          [] t = "text" -> <<"t", "e", "x", "t">>
          [] t = "TEXT" -> <<"T", "E", "X", "T">>
          [] t = "date" -> <<"d", "a", "t", "e">>
          [] t = "number" -> <<"n", "u", "m", "b", "e", "r">>
          [] t = "email" -> <<"e", "m", "a", "i", "l">>
          [] t = "password" -> <<"p", "a", "s", "s", "w", "o", "r", "d">>
          [] t = "textarea" -> <<"t", "e", "x", "t", "a", "r", "e", "a">>
          [] t = "checkbox" -> <<"c", "h", "e", "c", "k", "b", "o", "x">>
          [] t = "select" -> <<"s", "e", "l", "e", "c", "t">>
          [] t = "bogus" -> <<"b", "o", "g", "u", "s">>
          [] t = "value" -> <<"v", "a", "l", "u", "e">>
          [] t = "type" -> <<"t", "y", "p", "e">>
          [] t = "null" -> <<"n", "u", "l", "l">>
          [] t = "" -> <<>>]

---------------------------------------------------------------------------
(* Python dict with string keys, as the sequence of its items in insertion *)
(* order: assigning to a present key keeps the key's position              *)

DictKeys(d) == {d[i].key : i \in 1..Len(d)}

\* a list of pairs instead of a dict: a key already present gets a second item
DictSetAppend(d, k, v, t) == Append(d, [key |-> k, value |-> v, type |-> t])

\* d[k] = {'value': v, 'type': t}
DictSet(d, k, v, t) ==
    IF k \in DictKeys(d)
    THEN [i \in 1..Len(d) |->
            IF d[i].key = k THEN [key |-> k, value |-> v, type |-> t] ELSE d[i]]
    ELSE Append(d, [key |-> k, value |-> v, type |-> t])

\* d[k], for k a key of d
DictGet(d, k) ==
    LET i == CHOOSE j \in 1..Len(d) : d[j].key = k
    IN  [value |-> d[i].value, type |-> d[i].type]

---------------------------------------------------------------------------
(* JSONField storage: json.dumps of the dict, as a sequence of characters  *)

JsonStr(t) == <<"\"">> \o Chars[t] \o <<"\"">>

JsonValue(v) == IF v = None THEN Chars["null"] ELSE JsonStr(v)

JsonItem(e) ==
    JsonStr(e.key) \o <<":", " ", "{">>
        \o JsonStr("value") \o <<":", " ">> \o JsonValue(e.value) \o <<",", " ">>
        \o JsonStr("type") \o <<":", " ">> \o JsonStr(e.type) \o <<"}">>

RECURSIVE JsonItems(_)
JsonItems(d) ==
    IF d = <<>> THEN <<>>
    ELSE IF Len(d) = 1 THEN JsonItem(d[1])
    ELSE JsonItem(d[1]) \o <<",", " ">> \o JsonItems(Tail(d))

JsonDumps(d) == <<"{">> \o JsonItems(d) \o <<"}">>

---------------------------------------------------------------------------
(* The icontains lookup: LIKE '%term%', which ignores the case of letters  *)

UpperLetters ==
    <<"A", "B", "C", "D", "E", "F", "G", "H", "I", "J", "K", "L", "M",
      "N", "O", "P", "Q", "R", "S", "T", "U", "V", "W", "X", "Y", "Z">>

LowerLetters ==
    <<"a", "b", "c", "d", "e", "f", "g", "h", "i", "j", "k", "l", "m",
      "n", "o", "p", "q", "r", "s", "t", "u", "v", "w", "x", "y", "z">>

\* upper-case letter -> lower-case letter
FoldTable ==
    [c \in {UpperLetters[i] : i \in 1..Len(UpperLetters)} |->
        LowerLetters[CHOOSE i \in 1..Len(UpperLetters) : UpperLetters[i] = c]]

Lower(c) == IF c \in DOMAIN FoldTable THEN FoldTable[c] ELSE c

\* text LIKE '%term%' with the letters of both folded to one case
IContainsFold(text, term) ==
    \E i \in 0..(Len(text) - Len(term)) :
        \A j \in 1..Len(term) : Lower(text[i + j]) = Lower(term[j])

\* the same pattern compared character by character, the case kept
IContainsExact(text, term) ==
    \E i \in 0..(Len(text) - Len(term)) :
        \A j \in 1..Len(term) : text[i + j] = term[j]

\* Employee.objects.filter(fields__icontains=term): the row matches
IContains(text, term) == IContainsFold(text, term)

---------------------------------------------------------------------------
(* Querysets *)

\* FormField.objects.filter(created_by=u)
FieldsOf(ff, u) == {id \in DOMAIN ff : ff[id].created_by = u}

\* Employee.objects.filter(user=u)
EmployeesOf(emps, u) == {id \in DOMAIN emps : emps[id].user = u}

\* Employee.objects.all()
AllEmployees(emps) == DOMAIN emps

\* the sequences that list every element of S once
Perms(S) ==
    {s \in [1..Cardinality(S) -> S] :
        \A i, j \in 1..Cardinality(S) : i # j => s[i] # s[j]}

\* Meta.ordering = ['order']: the rows of S by ascending order; the database
\* returns rows of equal order in any order
Ordered(ff, S) ==
    {s \in Perms(S) :
        \A i, j \in 1..Len(s) : i < j => ff[s[i]].order <= ff[s[j]].order}

\* Employee.user is a OneToOneField: the column is UNIQUE
UserHasEmployee(emps, u) == \E id \in DOMAIN emps : emps[id].user = u

\* request.POST.get('field_<id>')
PostGet(post, id) == IF id \in DOMAIN post THEN post[id] ELSE None

\* the loop keeping the first entry of a label instead of the last
RECURSIVE BuildFieldsFirstWins(_, _, _, _)
BuildFieldsFirstWins(ff, seq, post, acc) ==
    IF seq = <<>> THEN acc
    ELSE BuildFieldsFirstWins(ff, Tail(seq), post,
            IF ff[Head(seq)].label \in DictKeys(acc) THEN acc
            ELSE DictSet(acc, ff[Head(seq)].label, PostGet(post, Head(seq)),
                         ff[Head(seq)].field_type))

\* the loop of employee_create_view / employee_edit_view over the fields in
\* the order seq the queryset yields them
RECURSIVE BuildFields(_, _, _, _)
BuildFields(ff, seq, post, acc) ==
    IF seq = <<>> THEN acc
    ELSE BuildFields(ff, Tail(seq), post,
            DictSet(acc, ff[Head(seq)].label, PostGet(post, Head(seq)),
                    ff[Head(seq)].field_type))

\* the filter without created_by: any account's row of that id
ReorderTargetsAnyOwner(ff, u, id) == {f \in DOMAIN ff : f = id}

\* FormField.objects.filter(id=field_id, created_by=user): the rows one
\* statement of update_field_order's loop updates
ReorderTargets(ff, u, id) == {f \in DOMAIN ff : f = id /\ ff[f].created_by = u}

\* one iteration that adds idx to the order of the filtered rows
ReorderStepAdd(ff, u, id, idx) ==
    [f \in DOMAIN ff |->
        IF f \in ReorderTargets(ff, u, id)
        THEN [ff[f] EXCEPT !.order = @ + idx] ELSE ff[f]]

\* one iteration of the loop: .update(order=idx) on the filtered rows
ReorderStep(ff, u, id, idx) ==
    [f \in DOMAIN ff |->
        IF f \in ReorderTargets(ff, u, id) THEN [ff[f] EXCEPT !.order = idx] ELSE ff[f]]

\* the loop of update_field_order from 0-based position idx on
RECURSIVE ReorderFrom(_, _, _, _)
ReorderFrom(ff, u, ids, idx) ==
    IF idx >= Len(ids) THEN ff
    ELSE ReorderFrom(ReorderStep(ff, u, ids[idx + 1], idx), u, ids, idx + 1)

---------------------------------------------------------------------------
(* State *)

\* a row of employee_formfield
FormField(label, field_type, required, order, created_by) ==
    [label |-> label, field_type |-> field_type, required |-> required,
     order |-> order, created_by |-> created_by]

\* a row of employee_employee
Employee(user, fields) == [user |-> user, fields |-> fields]

\* what is recorded of a request: the handler, the caller, how it ended, the
\* id in its URL, the rows it returned and its input
Op(op, user, status, pk, emps, fields, arg) ==
    [op |-> op, user |-> user, status |-> status, pk |-> pk,
     emps |-> emps, fields |-> fields, arg |-> arg]

Init ==
    /\ formFields = <<>>
    /\ employees = <<>>
    /\ nextFieldId = 1
    /\ nextEmpId = 1
    /\ reorders = <<>>
    /\ lastOp = Op("none", "A", "ok", 0, {}, <<>>, <<>>)

\* objects.create(...) / serializer.save(): INSERT into employee_formfield
InsertField(row) ==
    /\ formFields' = (nextFieldId :> row) @@ formFields
    /\ nextFieldId' = nextFieldId + 1

\* INSERT into employee_employee
InsertEmployee(row) ==
    /\ employees' = (nextEmpId :> row) @@ employees
    /\ nextEmpId' = nextEmpId + 1

\* DELETE of one row of a table
DeleteRow(table, pk) == [id \in DOMAIN table \ {pk} |-> table[id]]

---------------------------------------------------------------------------
(* HTML views *)

\* the greatest of a non-empty set of numbers
Max(S) == CHOOSE m \in S : \A n \in S : n <= m

\* the slot after the caller's last field, 0 when the caller has none
NextSlotOrder(ff, u) ==
    IF FieldsOf(ff, u) = {} THEN 0
    ELSE 1 + Max({ff[f].order : f \in FieldsOf(ff, u)})

\* the order a FormField gets when the caller passes none: the column default
DefaultOrder(ff, u) == 0

\* form_design_view, POST
FormDesignPost(u, label, field_type, required) ==
    /\ nextFieldId <= MaxFields
    /\ IF label = None \/ field_type = None
       THEN \* NOT NULL columns
            /\ lastOp' = Op("form_design_view.POST", u, "IntegrityError", 0, {}, <<>>,
                            <<label, field_type, required>>)
            /\ UNCHANGED <<formFields, nextFieldId>>
       ELSE /\ InsertField(FormField(label, field_type, required,
                                     DefaultOrder(formFields, u), u))
            /\ lastOp' = Op("form_design_view.POST", u, "ok", nextFieldId, {}, <<>>,
                            <<label, field_type, required>>)
    /\ UNCHANGED <<employees, nextEmpId, reorders>>

\* form_design_view, GET
FormDesignGet(u) ==
    /\ \E seq \in Ordered(formFields, FieldsOf(formFields, u)) :
          lastOp' = Op("form_design_view.GET", u, "ok", 0, {}, seq, <<>>)
    /\ UNCHANGED <<formFields, employees, nextFieldId, nextEmpId, reorders>>

\* employee_create_view, POST
EmployeeCreatePost(u, post) ==
    /\ nextEmpId <= MaxEmps
    /\ \E seq \in Ordered(formFields, FieldsOf(formFields, u)) :
          LET fields == BuildFields(formFields, seq, post, <<>>)
          IN  IF UserHasEmployee(employees, u)
              THEN /\ lastOp' = Op("employee_create_view.POST", u, "IntegrityError",
                                   0, {}, <<>>, post)
                   /\ UNCHANGED <<employees, nextEmpId>>
              ELSE /\ InsertEmployee(Employee(u, fields))
                   /\ lastOp' = Op("employee_create_view.POST", u, "ok",
                                   nextEmpId, {}, <<>>, post)
    /\ UNCHANGED <<formFields, nextFieldId, reorders>>

\* employee_list_view
EmployeeListView(u, search_query) ==
    /\ LET mine == EmployeesOf(employees, u)
           found == IF search_query # ""
                    THEN {e \in mine : IContains(JsonDumps(employees[e].fields),
                                                 Chars[search_query])}
                    ELSE mine
       IN  \E seq \in Ordered(formFields, FieldsOf(formFields, u)) :
              lastOp' = Op("employee_list_view", u, "ok", 0, found, seq, search_query)
    /\ UNCHANGED <<formFields, employees, nextFieldId, nextEmpId, reorders>>

\* the look-up by pk alone
GetEmployeeAnyOwner(emps, pk, u) == pk \in DOMAIN emps

\* Employee.objects.get(pk=pk, user=request.user) finds a row
GetEmployee(emps, pk, u) == pk \in DOMAIN emps /\ emps[pk].user = u

\* employee_edit_view writing over the stored map instead of an empty one
EmployeeEditViewMerge(u, pk, method, post) ==
    /\ IF ~GetEmployee(employees, pk, u)
       THEN /\ lastOp' = Op(IF method = "POST" THEN "employee_edit_view.POST" ELSE "employee_edit_view.GET", u, "DoesNotExist", pk,
                            {}, <<>>, post)
            /\ UNCHANGED employees
       ELSE \E seq \in Ordered(formFields, FieldsOf(formFields, u)) :
              IF method = "POST"
              THEN /\ employees' = [employees EXCEPT
                          ![pk].fields = BuildFields(formFields, seq, post, @)]
                   /\ lastOp' = Op("employee_edit_view.POST", u, "ok", pk, {}, <<>>, post)
              ELSE /\ lastOp' = Op("employee_edit_view.GET", u, "ok", pk, {pk}, seq, post)
                   /\ UNCHANGED employees
    /\ UNCHANGED <<formFields, nextFieldId, nextEmpId, reorders>>

\* employee_edit_view
EmployeeEditView(u, pk, method, post) ==
    /\ IF ~GetEmployee(employees, pk, u)
       THEN /\ lastOp' = Op(IF method = "POST" THEN "employee_edit_view.POST" ELSE "employee_edit_view.GET", u, "DoesNotExist", pk,
                            {}, <<>>, post)
            /\ UNCHANGED employees
       ELSE \E seq \in Ordered(formFields, FieldsOf(formFields, u)) :
              IF method = "POST"
              THEN /\ employees' = [employees EXCEPT
                          ![pk].fields = BuildFields(formFields, seq, post, <<>>)]
                   /\ lastOp' = Op("employee_edit_view.POST", u, "ok", pk, {}, <<>>, post)
              ELSE /\ lastOp' = Op("employee_edit_view.GET", u, "ok", pk, {pk}, seq, post)
                   /\ UNCHANGED employees
    /\ UNCHANGED <<formFields, nextFieldId, nextEmpId, reorders>>

\* employee_delete_view
EmployeeDeleteView(u, pk) ==
    /\ IF ~GetEmployee(employees, pk, u)
       THEN /\ lastOp' = Op("employee_delete_view", u, "DoesNotExist", pk, {}, <<>>, <<>>)
            /\ UNCHANGED employees
       ELSE /\ employees' = DeleteRow(employees, pk)
            /\ lastOp' = Op("employee_delete_view", u, "ok", pk, {}, <<>>, <<>>)
    /\ UNCHANGED <<formFields, nextFieldId, nextEmpId, reorders>>

\* update_field_order, the request served in one piece
UpdateFieldOrder(u, ajaxPost, order) ==
    /\ IF ajaxPost
       THEN /\ formFields' = ReorderFrom(formFields, u, order, 0)
            /\ lastOp' = Op("update_field_order", u, "ok", 0, {}, <<>>, order)
       ELSE /\ lastOp' = Op("update_field_order", u, "error", 0, {}, <<>>, order)
            /\ UNCHANGED formFields
    /\ UNCHANGED <<employees, nextFieldId, nextEmpId, reorders>>

---------------------------------------------------------------------------
(* REST API views *)

\* a key the request leaves out, where the value is no text
Absent == <<>>

\* FormFieldSerializer.is_valid on the data of a create or update; partial is
\* PATCH.  A text the request leaves out is None; required and order are
\* Absent or <<value>>.
FormFieldDataValid(data, partial) ==
    /\ IF data.label = None THEN partial ELSE data.label # ""
    /\ IF data.field_type = None THEN partial ELSE data.field_type \in FIELD_TYPES
    /\ data.order = Absent \/ data.order[1] >= 0

\* FormFieldListCreateView: get_queryset
ApiFormFieldQueryset(ff, u) == FieldsOf(ff, u)

\* FormFieldListCreateView, GET
ApiFormFieldList(u) ==
    /\ \E seq \in Ordered(formFields, ApiFormFieldQueryset(formFields, u)) :
          lastOp' = Op("FormFieldListCreateView.GET", u, "ok", 0, {}, seq, <<>>)
    /\ UNCHANGED <<formFields, employees, nextFieldId, nextEmpId, reorders>>

\* FormFieldListCreateView, POST: perform_create
ApiFormFieldCreate(u, data) ==
    /\ nextFieldId <= MaxFields
    /\ IF ~FormFieldDataValid(data, FALSE)
       THEN /\ lastOp' = Op("FormFieldListCreateView.POST", u, "ValidationError",
                            0, {}, <<>>, data)
            /\ UNCHANGED <<formFields, nextFieldId>>
       ELSE /\ InsertField(FormField(
                    data.label, data.field_type,
                    IF data.required = Absent THEN TRUE ELSE data.required[1],
                    IF data.order = Absent THEN DefaultOrder(formFields, u)
                                           ELSE data.order[1],
                    u))
            /\ lastOp' = Op("FormFieldListCreateView.POST", u, "ok", nextFieldId,
                            {}, <<>>, data)
    /\ UNCHANGED <<employees, nextEmpId, reorders>>

\* FormFieldRetrieveUpdateDestroyView: get_object on get_queryset finds a row
GetFormField(ff, pk, u) == pk \in DOMAIN ff /\ ff[pk].created_by = u

\* FormFieldRetrieveUpdateDestroyView, GET
ApiFormFieldRetrieve(u, pk) ==
    /\ IF ~GetFormField(formFields, pk, u)
       THEN lastOp' = Op("FormFieldRetrieveUpdateDestroyView.GET", u, "Http404", pk,
                         {}, <<>>, <<>>)
       ELSE lastOp' = Op("FormFieldRetrieveUpdateDestroyView.GET", u, "ok", pk,
                         {}, <<pk>>, <<>>)
    /\ UNCHANGED <<formFields, employees, nextFieldId, nextEmpId, reorders>>

\* ModelSerializer.update: the attributes the request gives are set
PatchField(row, data) ==
    [label |-> IF data.label = None THEN row.label ELSE data.label,
     field_type |-> IF data.field_type = None THEN row.field_type ELSE data.field_type,
     required |-> IF data.required = Absent THEN row.required ELSE data.required[1],
     order |-> IF data.order = Absent THEN row.order ELSE data.order[1],
     created_by |-> row.created_by]

\* FormFieldRetrieveUpdateDestroyView, PUT (partial = FALSE) and PATCH
ApiFormFieldUpdate(u, pk, partial, data) ==
    /\ IF ~GetFormField(formFields, pk, u)
       THEN /\ lastOp' = Op("FormFieldRetrieveUpdateDestroyView.PUT", u, "Http404", pk,
                            {}, <<>>, data)
            /\ UNCHANGED formFields
       ELSE IF ~FormFieldDataValid(data, partial)
       THEN /\ lastOp' = Op("FormFieldRetrieveUpdateDestroyView.PUT", u,
                            "ValidationError", pk, {}, <<>>, data)
            /\ UNCHANGED formFields
       ELSE /\ formFields' = [formFields EXCEPT ![pk] = PatchField(@, data)]
            /\ lastOp' = Op("FormFieldRetrieveUpdateDestroyView.PUT", u, "ok", pk,
                            {}, <<>>, data)
    /\ UNCHANGED <<employees, nextFieldId, nextEmpId, reorders>>

\* d without its item of key k
DictDel(d, k) == SelectSeq(d, LAMBDA e : e.key # k)

\* a DELETE that also drops the deleted field's label from the records of
\* its owner, as if records referred to the field
ApiFormFieldDestroyCascade(u, pk) ==
    /\ IF ~GetFormField(formFields, pk, u)
       THEN /\ lastOp' = Op("FormFieldRetrieveUpdateDestroyView.DELETE", u, "Http404",
                            pk, {}, <<>>, <<>>)
            /\ UNCHANGED <<formFields, employees>>
       ELSE /\ formFields' = DeleteRow(formFields, pk)
            /\ employees' =
                  [e \in DOMAIN employees |->
                      IF employees[e].user = u
                      THEN [employees[e] EXCEPT
                              !.fields = DictDel(@, formFields[pk].label)]
                      ELSE employees[e]]
            /\ lastOp' = Op("FormFieldRetrieveUpdateDestroyView.DELETE", u, "ok", pk,
                            {}, <<>>, <<>>)
    /\ UNCHANGED <<nextFieldId, nextEmpId, reorders>>

\* FormFieldRetrieveUpdateDestroyView, DELETE
ApiFormFieldDestroy(u, pk) ==
    /\ IF ~GetFormField(formFields, pk, u)
       THEN /\ lastOp' = Op("FormFieldRetrieveUpdateDestroyView.DELETE", u, "Http404",
                            pk, {}, <<>>, <<>>)
            /\ UNCHANGED formFields
       ELSE /\ formFields' = DeleteRow(formFields, pk)
            /\ lastOp' = Op("FormFieldRetrieveUpdateDestroyView.DELETE", u, "ok", pk,
                            {}, <<>>, <<>>)
    /\ UNCHANGED <<employees, nextFieldId, nextEmpId, reorders>>

\* EmployeeListCreateView: the class attribute queryset, no get_queryset
ApiEmployeeListQueryset(emps, u) == AllEmployees(emps)

\* EmployeeListCreateView, GET
ApiEmployeeList(u) ==
    /\ lastOp' = Op("EmployeeListCreateView.GET", u, "ok", 0,
                    ApiEmployeeListQueryset(employees, u), <<>>, <<>>)
    /\ UNCHANGED <<formFields, employees, nextFieldId, nextEmpId, reorders>>

\* EmployeeListCreateView, POST: perform_create.  userData is the nested
\* "user" object of the request ("none": left out); fields its "fields",
\* Absent or <<dict>>
ApiEmployeeCreate(u, userData, fields) ==
    /\ nextEmpId <= MaxEmps
    /\ IF userData # "full"
       THEN \* the nested serializer requires email, first_name and last_name
            /\ lastOp' = Op("EmployeeListCreateView.POST", u, "ValidationError", 0,
                            {}, <<>>, <<userData, fields>>)
            /\ UNCHANGED <<employees, nextEmpId>>
       ELSE IF UserHasEmployee(employees, u)
       THEN /\ lastOp' = Op("EmployeeListCreateView.POST", u, "IntegrityError", 0,
                            {}, <<>>, <<userData, fields>>)
            /\ UNCHANGED <<employees, nextEmpId>>
       ELSE /\ InsertEmployee(Employee(u, IF fields = Absent THEN <<>> ELSE fields[1]))
            /\ lastOp' = Op("EmployeeListCreateView.POST", u, "ok", nextEmpId,
                            {}, <<>>, <<userData, fields>>)
    /\ UNCHANGED <<formFields, nextFieldId, reorders>>

\* EmployeeRetrieveUpdateDestroyView: get_object on get_queryset finds a row
ApiGetEmployee(emps, pk, u) == pk \in DOMAIN emps /\ emps[pk].user = u

\* EmployeeRetrieveUpdateDestroyView, GET
ApiEmployeeRetrieve(u, pk) ==
    /\ IF ~ApiGetEmployee(employees, pk, u)
       THEN lastOp' = Op("EmployeeRetrieveUpdateDestroyView.GET", u, "Http404", pk,
                         {}, <<>>, <<>>)
       ELSE lastOp' = Op("EmployeeRetrieveUpdateDestroyView.GET", u, "ok", pk,
                         {pk}, <<>>, <<>>)
    /\ UNCHANGED <<formFields, employees, nextFieldId, nextEmpId, reorders>>

\* EmployeeRetrieveUpdateDestroyView, PUT (partial = FALSE) and PATCH:
\* EmployeeSerializer.update.  userData: "none" (left out), "names" (no
\* email) or "full"
ApiEmployeeUpdate(u, pk, partial, userData, fields) ==
    /\ IF ~ApiGetEmployee(employees, pk, u)
       THEN /\ lastOp' = Op("EmployeeRetrieveUpdateDestroyView.PUT", u, "Http404", pk,
                            {}, <<>>, <<partial, userData, fields>>)
            /\ UNCHANGED employees
       ELSE IF ~partial /\ userData # "full"
       THEN /\ lastOp' = Op("EmployeeRetrieveUpdateDestroyView.PUT", u,
                            "ValidationError", pk, {}, <<>>, <<partial, userData, fields>>)
            /\ UNCHANGED employees
       ELSE IF userData = "full"
       THEN \* UpdateUserSerializer.validate_email reads self.context['request'],
            \* which the serializer built in update() does not have
            /\ lastOp' = Op("EmployeeRetrieveUpdateDestroyView.PUT", u, "KeyError", pk,
                            {}, <<>>, <<partial, userData, fields>>)
            /\ UNCHANGED employees
       ELSE /\ employees' = [employees EXCEPT
                   ![pk].fields = IF fields = Absent THEN @ ELSE fields[1]]
            /\ lastOp' = Op("EmployeeRetrieveUpdateDestroyView.PUT", u, "ok", pk,
                            {}, <<>>, <<partial, userData, fields>>)
    /\ UNCHANGED <<formFields, nextFieldId, nextEmpId, reorders>>

\* EmployeeRetrieveUpdateDestroyView, DELETE
ApiEmployeeDestroy(u, pk) ==
    /\ IF ~ApiGetEmployee(employees, pk, u)
       THEN /\ lastOp' = Op("EmployeeRetrieveUpdateDestroyView.DELETE", u, "Http404",
                            pk, {}, <<>>, <<>>)
            /\ UNCHANGED employees
       ELSE /\ employees' = DeleteRow(employees, pk)
            /\ lastOp' = Op("EmployeeRetrieveUpdateDestroyView.DELETE", u, "ok", pk,
                            {}, <<>>, <<>>)
    /\ UNCHANGED <<formFields, nextFieldId, nextEmpId, reorders>>

---------------------------------------------------------------------------
(* The requests the model issues *)

FieldIds == 1..MaxFields
EmpIds == 1..MaxEmps

\* the longest order[] list of an update_field_order request
MaxOrderLen == 2

\* the order[] lists of update_field_order; an id names no row before the row
\* is inserted and after it is deleted
OrdersIn == UNION {[1..n -> FieldIds] : n \in 0..MaxOrderLen}

\* no id occurs twice in the sequence
NoRepeat(ids) == \A i, j \in 1..Len(ids) : i # j => ids[i] # ids[j]

\* update_field_order requests: <<POST and is_ajax(), order[]>>
ReordersIn == {<<TRUE, o>> : o \in OrdersIn} \cup {<<FALSE, <<>>>>}

\* the requests whose order[] names no id twice
ReordersOnce == {r \in ReordersIn : NoRepeat(r[2])}

\* a JSON body sent to a form-field endpoint
FieldData(label, field_type, required, order) ==
    [label |-> label, field_type |-> field_type, required |-> required, order |-> order]

---------------------------------------------------------------------------
(* Defining fields: form_design_view and the form-field endpoints that    *)
(* write a field's columns, with bodies they accept and bodies they reject *)

\* <<label, field_type, required>> of a form_design POST
DesignIn ==
    {<<"nm", "text", TRUE>>, <<"id", "bogus", FALSE>>,
     <<None, "text", TRUE>>, <<"nm", None, FALSE>>}

FieldDataIn ==
    {FieldData("nm", "text", Absent, Absent),
     FieldData("id", "date", <<FALSE>>, <<1>>),
     FieldData("nm", "bogus", Absent, Absent),
     FieldData(None, None, Absent, <<0>>),
     FieldData("id", "text", Absent, <<0 - 1>>)}

NextDefine ==
    \/ \E u \in Users, d \in DesignIn : FormDesignPost(u, d[1], d[2], d[3])
    \/ \E u \in Users : FormDesignGet(u)
    \/ \E u \in Users : ApiFormFieldList(u)
    \/ \E u \in Users, d \in FieldDataIn : ApiFormFieldCreate(u, d)
    \/ \E u \in Users, pk \in FieldIds, p \in BOOLEAN, d \in FieldDataIn :
          ApiFormFieldUpdate(u, pk, p, d)

SpecDefine == Init /\ [][NextDefine]_vars

---------------------------------------------------------------------------
(* The schema registry: every handler that reads or writes FormField, the  *)
(* writes of the API with bodies it accepts                                *)

DesignOne == {<<"nm", "text", TRUE>>}

FieldDataOne == {FieldData("id", "date", <<FALSE>>, <<1>>)}

NextSchema ==
    \/ \E u \in Users, d \in DesignOne : FormDesignPost(u, d[1], d[2], d[3])
    \/ \E u \in Users : FormDesignGet(u)
    \/ \E u \in Users, r \in ReordersOnce : UpdateFieldOrder(u, r[1], r[2])
    \/ \E u \in Users : ApiFormFieldList(u)
    \/ \E u \in Users, d \in FieldDataOne : ApiFormFieldCreate(u, d)
    \/ \E u \in Users, pk \in FieldIds : ApiFormFieldRetrieve(u, pk)
    \/ \E u \in Users, pk \in FieldIds, d \in FieldDataOne :
          ApiFormFieldUpdate(u, pk, TRUE, d)
    \/ \E u \in Users, pk \in FieldIds : ApiFormFieldDestroy(u, pk)

SpecSchema == Init /\ [][NextSchema]_vars

---------------------------------------------------------------------------
(* The record store: the handlers that create, list, rewrite and delete    *)
(* Employee rows, over schemas built with form_design_view                 *)

\* two fields of one label and different types can be defined
DesignRec == {<<"nm", "text", TRUE>>, <<"nm", "date", FALSE>>, <<"id", "text", TRUE>>}

\* values typed into the employee form
ValuesIn == {"Al"}

\* the POST data of the employee form: field_<id> -> value, any keys left out
PostsIn == UNION {[S -> ValuesIn] : S \in SUBSET FieldIds}

\* ?search=
TermsIn == {"", "Al", "al", "AL", "l", "zz", "TEXT", "null"}

\* the "fields" of a JSON body sent to an employee endpoint
FieldsFew == {Absent, <<<<[key |-> "nm", value |-> "al", type |-> "text"]>>>>}

NextRecords ==
    \/ \E u \in Users, d \in DesignRec : FormDesignPost(u, d[1], d[2], d[3])
    \/ \E u \in Users, r \in ReordersIn : UpdateFieldOrder(u, r[1], r[2])
    \/ \E u \in Users : FormDesignGet(u)
    \/ \E u \in Users : ApiFormFieldList(u)
    \/ \E u \in Users, post \in PostsIn : EmployeeCreatePost(u, post)
    \/ \E u \in Users : EmployeeListView(u, "")
    \/ \E u \in Users, pk \in EmpIds : EmployeeDeleteView(u, pk)
    \/ \E u \in Users : ApiEmployeeList(u)
    \/ \E u \in Users, f \in FieldsFew : ApiEmployeeCreate(u, "full", f)

SpecRecords == Init /\ [][NextRecords]_vars

---------------------------------------------------------------------------
(* Search: employee_list_view with ?search= over records made through the  *)
(* form and through the API                                                *)

NextSearch ==
    \/ \E u \in Users, d \in DesignOne : FormDesignPost(u, d[1], d[2], d[3])
    \/ \E u \in Users, post \in PostsIn : EmployeeCreatePost(u, post)
    \/ \E u \in Users, f \in FieldsFew : ApiEmployeeCreate(u, "full", f)
    \/ \E u \in Users, pk \in EmpIds : EmployeeDeleteView(u, pk)
    \/ \E u \in Users, q \in TermsIn : EmployeeListView(u, q)

SpecSearch == Init /\ [][NextSearch]_vars

---------------------------------------------------------------------------
(* Look-up by owner and id: every handler that takes the id of a row, over *)
(* rows made with form_design_view and employee_create_view                *)

FieldDataFew ==
    {FieldData("id", "date", Absent, Absent), FieldData("nm", "bogus", Absent, Absent)}

\* the POST data of the employee form: nothing, or a value for every field
PostsFew == {<<>>} \cup {[f \in FieldIds |-> "Al"]}

UserDataIn == {"none", "names", "full"}

NextIds ==
    \/ \E u \in Users, d \in DesignOne : FormDesignPost(u, d[1], d[2], d[3])
    \/ \E u \in Users : EmployeeCreatePost(u, <<>>)
    \/ \E u \in Users, pk \in FieldIds : ApiFormFieldRetrieve(u, pk)
    \/ \E u \in Users, pk \in FieldIds, p \in BOOLEAN, d \in FieldDataFew :
          ApiFormFieldUpdate(u, pk, p, d)
    \/ \E u \in Users, pk \in FieldIds : ApiFormFieldDestroy(u, pk)
    \/ \E u \in Users, pk \in EmpIds, m \in {"GET", "POST"} :
          EmployeeEditView(u, pk, m, <<>>)
    \/ \E u \in Users, pk \in EmpIds : EmployeeDeleteView(u, pk)
    \/ \E u \in Users, pk \in EmpIds : ApiEmployeeRetrieve(u, pk)
    \/ \E u \in Users, pk \in EmpIds, p \in BOOLEAN, ud \in UserDataIn, f \in FieldsFew :
          ApiEmployeeUpdate(u, pk, p, ud, f)
    \/ \E u \in Users, pk \in EmpIds : ApiEmployeeDestroy(u, pk)

SpecIds == Init /\ [][NextIds]_vars

---------------------------------------------------------------------------
(* Schema changes over stored records: every handler that writes FormField *)
(* and the form handlers that write Employee                               *)

NextSnapshot ==
    \/ \E u \in Users, d \in DesignOne : FormDesignPost(u, d[1], d[2], d[3])
    \/ \E u \in Users, d \in FieldDataFew : ApiFormFieldCreate(u, d)
    \/ \E u \in Users, pk \in FieldIds, p \in BOOLEAN, d \in FieldDataFew :
          ApiFormFieldUpdate(u, pk, p, d)
    \/ \E u \in Users, pk \in FieldIds : ApiFormFieldDestroy(u, pk)
    \/ \E u \in Users, r \in ReordersIn : UpdateFieldOrder(u, r[1], r[2])
    \/ \E u \in Users, post \in PostsFew : EmployeeCreatePost(u, post)
    \/ \E u \in Users, pk \in EmpIds, post \in PostsFew :
          EmployeeEditView(u, pk, "POST", post)
    \/ \E u \in Users, pk \in EmpIds : EmployeeDeleteView(u, pk)

SpecSnapshot == Init /\ [][NextSnapshot]_vars

---------------------------------------------------------------------------
(* Rewriting records: employee_edit_view and the PATCH of the employee     *)
(* endpoint, over schemas that grow and shrink                             *)

DesignTwo == {<<"nm", "text", TRUE>>, <<"id", "date", FALSE>>}

NextUpdate ==
    \/ \E u \in Users, d \in DesignTwo : FormDesignPost(u, d[1], d[2], d[3])
    \/ \E u \in Users, pk \in FieldIds : ApiFormFieldDestroy(u, pk)
    \/ \E u \in Users, post \in PostsFew : EmployeeCreatePost(u, post)
    \/ \E u \in Users, pk \in EmpIds, post \in PostsFew :
          EmployeeEditView(u, pk, "POST", post)
    \/ \E u \in Users, pk \in EmpIds, f \in FieldsFew :
          ApiEmployeeUpdate(u, pk, TRUE, "none", f)

SpecUpdate == Init /\ [][NextUpdate]_vars

---------------------------------------------------------------------------
(* Reordering and listing: update_field_order with any order[] list, ids   *)
(* named twice included, and the two views that list the fields           *)

NextOrder ==
    \/ \E u \in Users, d \in DesignOne : FormDesignPost(u, d[1], d[2], d[3])
    \/ \E u \in Users, d \in FieldDataOne : ApiFormFieldCreate(u, d)
    \/ \E u \in Users, r \in ReordersIn : UpdateFieldOrder(u, r[1], r[2])
    \/ \E u \in Users : FormDesignGet(u)
    \/ \E u \in Users : ApiFormFieldList(u)

SpecOrder == Init /\ [][NextOrder]_vars

---------------------------------------------------------------------------
(* Writing records from schemas with repeated labels: the two form views   *)
(* that build a record, over fields of one label at different positions   *)

NextLabels ==
    \/ \E u \in Users, d \in DesignRec : FormDesignPost(u, d[1], d[2], d[3])
    \/ \E u \in Users, r \in ReordersOnce : UpdateFieldOrder(u, r[1], r[2])
    \/ \E u \in Users, post \in PostsIn : EmployeeCreatePost(u, post)
    \/ \E u \in Users, pk \in EmpIds, post \in PostsIn :
          EmployeeEditView(u, pk, "POST", post)

SpecLabels == Init /\ [][NextLabels]_vars

---------------------------------------------------------------------------
(* Concurrent requests: update_field_order runs one UPDATE statement per   *)
(* id, each committed on its own (no transaction.atomic, autocommit), so   *)
(* statements of other requests run between them                           *)

\* the update_field_order requests of a run, each served once
Procs == {1, 2}

\* an update_field_order request: the caller, order[], the number of
\* statements done, and whether it is in its loop or over; and for the
\* claims, the table when it began, the table when the first of the
\* overlapping requests began, and the requests it overlapped with
Reorder(u, order, idx, pc, base, peers) ==
    [user |-> u, order |-> order, idx |-> idx, pc |-> pc, start |-> formFields,
     base |-> base, peers |-> peers]

\* the requests in their loop
Active == {q \in DOMAIN reorders : reorders[q].pc = "loop"}

\* update_field_order: the request arrives (an ajax POST)
ReorderBegin(p, u, order) ==
    /\ p \notin DOMAIN reorders
    /\ reorders' =
          [q \in DOMAIN reorders \cup {p} |->
              IF q = p
              THEN IF Active = {}
                   THEN Reorder(u, order, 0, "loop", formFields, <<>>)
                   ELSE LET o == CHOOSE o \in Active : TRUE
                        IN  Reorder(u, order, 0, "loop", reorders[o].base,
                                    <<[user |-> reorders[o].user,
                                       order |-> reorders[o].order]>>)
              ELSE IF q \in Active
                   THEN [reorders[q] EXCEPT
                           !.peers = Append(@, [user |-> u, order |-> order])]
                   ELSE reorders[q]]
    /\ lastOp' = Op("update_field_order.begin", u, "ok", p, {}, <<>>, order)
    /\ UNCHANGED <<formFields, employees, nextFieldId, nextEmpId>>

\* update_field_order: one iteration of the loop, one UPDATE statement
ReorderUpdate(p) ==
    /\ p \in Active
    /\ reorders[p].idx < Len(reorders[p].order)
    /\ formFields' = ReorderStep(formFields, reorders[p].user,
                                 reorders[p].order[reorders[p].idx + 1], reorders[p].idx)
    /\ reorders' = [reorders EXCEPT ![p].idx = @ + 1]
    /\ lastOp' = Op("update_field_order.update", reorders[p].user, "ok", p, {}, <<>>,
                    reorders[p].order)
    /\ UNCHANGED <<employees, nextFieldId, nextEmpId>>

\* update_field_order: the loop is over, the response is sent
ReorderEnd(p) ==
    /\ p \in Active
    /\ reorders[p].idx = Len(reorders[p].order)
    /\ reorders' = [reorders EXCEPT ![p].pc = "done"]
    /\ lastOp' = Op("update_field_order", reorders[p].user, "ok", p, {}, <<>>,
                    reorders[p].order)
    /\ UNCHANGED <<formFields, employees, nextFieldId, nextEmpId>>

\* order[] lists that name every id once
OrdersConc == {o \in OrdersIn : Len(o) = MaxOrderLen /\ NoRepeat(o)}

NextConc ==
    \/ \E u \in Users, d \in DesignOne : FormDesignPost(u, d[1], d[2], d[3])
    \/ \E u \in Users : FormDesignGet(u)
    \/ \E u \in Users : EmployeeCreatePost(u, <<>>)
    \/ \E p \in Procs, u \in Users, o \in OrdersConc : ReorderBegin(p, u, o)
    \/ \E p \in Procs : ReorderUpdate(p)
    \/ \E p \in Procs : ReorderEnd(p)

SpecConc == Init /\ [][NextConc]_vars

---------------------------------------------------------------------------
(* Claims about the schema registry *)

\* the last request was a defineField that created a row, the order left to
\* the server
DefinedField ==
    /\ lastOp.status = "ok"
    /\ \/ lastOp.op = "form_design_view.POST"
       \/ lastOp.op = "FormFieldListCreateView.POST" /\ lastOp.arg.order = Absent

\* C5 as stated: the new FieldDefinition's order is 0 when the owner has no
\* other field, and otherwise 1 plus the maximum order of the owner's other
\* fields
C5_NextFreeSlot ==
    DefinedField =>
        LET others == FieldsOf(formFields, lastOp.user) \ {lastOp.pk}
        IN  formFields[lastOp.pk].order =
                IF others = {} THEN 0
                ELSE 1 + Max({formFields[f].order : f \in others})

\* C5 amended: the new FieldDefinition's order is 0 whatever fields the owner
\* already has; through the API it is the order the request gives, 0 when it
\* gives none
C5_OrderIsDefault ==
    /\ DefinedField => formFields[lastOp.pk].order = 0
    /\ (lastOp.op = "FormFieldListCreateView.POST" /\ lastOp.status = "ok"
            /\ lastOp.arg.order # Absent)
        => formFields[lastOp.pk].order = lastOp.arg.order[1]

\* C5 witness: a field was defined for an owner who already had one, and it
\* shares order 0 with it
C5_Witness ==
    /\ DefinedField
    /\ \E f \in FieldsOf(formFields, lastOp.user) \ {lastOp.pk} :
          formFields[f].order = 0 /\ formFields[lastOp.pk].order = 0

\* C6 as stated: a defineField whose type is outside the enumeration ends in a
\* validation error, and every stored FieldDefinition has a type of the
\* enumeration
C6_TypeInEnumeration ==
    /\ \A f \in DOMAIN formFields : formFields[f].field_type \in FIELD_TYPES
    /\ (lastOp.op = "form_design_view.POST" /\ lastOp.arg[2] \notin FIELD_TYPES)
        => lastOp.status \in {"ValidationError", "IntegrityError"}
    /\ (lastOp.op = "FormFieldListCreateView.POST"
            /\ lastOp.arg.field_type \notin FIELD_TYPES)
        => lastOp.status = "ValidationError"

\* C7: a successful reorder(owner, orderedIds) without repeated ids sets
\* order = i for the caller's field whose id is at 0-based position i and
\* changes nothing else: no row is added or removed, the order of every
\* field not named or not owned by the caller, every label, type, required
\* flag and owner, and every record are unchanged
C7_ReorderFrame ==
    [][(lastOp'.op = "update_field_order" /\ lastOp'.status = "ok"
            /\ NoRepeat(lastOp'.arg))
        => /\ DOMAIN formFields' = DOMAIN formFields
           /\ employees' = employees
           /\ \A f \in DOMAIN formFields :
                 /\ formFields'[f].label = formFields[f].label
                 /\ formFields'[f].field_type = formFields[f].field_type
                 /\ formFields'[f].required = formFields[f].required
                 /\ formFields'[f].created_by = formFields[f].created_by
                 /\ formFields'[f].order =
                        IF /\ formFields[f].created_by = lastOp'.user
                           /\ \E i \in 1..Len(lastOp'.arg) : lastOp'.arg[i] = f
                        THEN (CHOOSE i \in 1..Len(lastOp'.arg) : lastOp'.arg[i] = f) - 1
                        ELSE formFields[f].order]_vars

\* C7 witness: a reorder named another account's field first and the
\* caller's field second; the caller's field is at order 1, the other
\* account's field kept a different order
C7_Witness ==
    /\ lastOp.op = "update_field_order" /\ lastOp.status = "ok"
    /\ Len(lastOp.arg) = 2
    /\ lastOp.arg[1] \in DOMAIN formFields
    /\ lastOp.arg[2] \in DOMAIN formFields
    /\ formFields[lastOp.arg[1]].created_by # lastOp.user
    /\ formFields[lastOp.arg[2]].created_by = lastOp.user
    /\ formFields[lastOp.arg[2]].order = 1
    /\ formFields[lastOp.arg[1]].order # 0

---------------------------------------------------------------------------
(* Claims about the record store *)

ListOps ==
    {"form_design_view.GET", "FormFieldListCreateView.GET",
     "employee_list_view", "EmployeeListCreateView.GET"}

\* C1 as stated: no list operation returns a FieldDefinition or a Record of
\* an account other than the caller
C1_ListIsolation ==
    lastOp.op \in ListOps =>
        /\ \A e \in lastOp.emps : employees[e].user = lastOp.user
        /\ \A i \in 1..Len(lastOp.fields) :
              formFields[lastOp.fields[i]].created_by = lastOp.user

\* the last request was a createRecord with a well-formed body
CreateRecordCalled ==
    \/ lastOp.op = "employee_create_view.POST"
    \/ lastOp.op = "EmployeeListCreateView.POST" /\ lastOp.arg[1] = "full"

\* C3 as stated: every createRecord succeeds, also for an owner who already
\* has a record
C3_CreateAlwaysSucceeds == CreateRecordCalled => lastOp.status = "ok"

\* the last request was a createRecord through the employee form that stored
\* a record
CreatedRecord == lastOp.op = "employee_create_view.POST" /\ lastOp.status = "ok"

\* the labels of the fields in S
LabelsOf(S) == {formFields[f].label : f \in S}

\* C4 as stated: the new record has, for every field f of the caller,
\* values[f.label] = {value: submitted value of f or null, type: f.type},
\* and no key that is not the label of a field of the caller
C4_EntryPerField ==
    CreatedRecord =>
        LET mine == FieldsOf(formFields, lastOp.user)
            values == employees[lastOp.pk].fields
        IN  /\ DictKeys(values) = LabelsOf(mine)
            /\ \A f \in mine :
                  DictGet(values, formFields[f].label) =
                      [value |-> PostGet(lastOp.arg, f),
                       type |-> formFields[f].field_type]

\* the record the last request created has one entry per label of the
\* caller's fields and no other key; the entry of a label is {value:
\* submitted value of f or null, type: f.type} for a field f of that label
\* that no other field of the label follows in order
EntryPerLabel ==
    CreatedRecord =>
        LET mine == FieldsOf(formFields, lastOp.user)
            values == employees[lastOp.pk].fields
        IN  /\ DictKeys(values) = LabelsOf(mine)
            /\ Len(values) = Cardinality(LabelsOf(mine))
            /\ employees[lastOp.pk].user = lastOp.user
            /\ \A l \in LabelsOf(mine) :
                  \E f \in mine :
                     /\ formFields[f].label = l
                     /\ \A g \in mine : formFields[g].label = l
                            => formFields[g].order <= formFields[f].order
                     /\ DictGet(values, l) =
                            [value |-> PostGet(lastOp.arg, f),
                             type |-> formFields[f].field_type]

\* C4 amended: the new record has one entry per label of the caller's fields
\* and no other key; the entry of a label is {value: submitted value of f or
\* null, type: f.type} for a field f of that label that no other field of
\* the label follows in order (when the label belongs to one field only,
\* that is the field); a required field left out is stored as null; and a
\* listRecords of the caller that follows returns the record as stored
C4_EntryPerLabel ==
    [][/\ EntryPerLabel'
       /\ (/\ CreatedRecord
           /\ lastOp'.op = "employee_list_view"
           /\ lastOp'.user = lastOp.user
           /\ lastOp'.arg = "")
          => /\ lastOp.pk \in lastOp'.emps
             /\ employees'[lastOp.pk] = employees[lastOp.pk]]_vars

\* C4 witness: a record was created while the caller had two fields of one
\* label, of different types and at different positions, and the entry of
\* the label carries the type and the submitted value of the later one
C4_Witness ==
    /\ CreatedRecord
    /\ \E f, g \in FieldsOf(formFields, lastOp.user) :
          /\ formFields[f].label = formFields[g].label
          /\ formFields[f].field_type # formFields[g].field_type
          /\ formFields[f].order < formFields[g].order
          /\ g \in DOMAIN lastOp.arg
          /\ DictGet(employees[lastOp.pk].fields, formFields[g].label) =
                [value |-> PostGet(lastOp.arg, g),
                 type |-> formFields[g].field_type]

\* term occurs in text, letter case and all
OccursIn(term, text) ==
    \E i \in 1..(Len(text) - Len(term) + 1) : SubSeq(text, i, i + Len(term) - 1) = term

\* the texts that differ from term in the case of letters at most
SameLetters(term, other) ==
    /\ Len(other) = Len(term)
    /\ \A i \in 1..Len(term) :
          \/ other[i] = term[i]
          \/ \E k \in 1..Len(UpperLetters) :
                {other[i], term[i]} = {UpperLetters[k], LowerLetters[k]}

\* the serialized values of record e
Serialized(e) == JsonDumps(employees[e].fields)

\* the last request was listRecords through employee_list_view
ListedRecords == lastOp.op = "employee_list_view"

\* C9 as stated: with a term, listRecords returns exactly the caller's
\* records whose serialized values contain the term in the same letter
\* case; without a term, all of the caller's records
C9_SearchCaseSensitive ==
    ListedRecords =>
        lastOp.emps =
            {e \in EmployeesOf(employees, lastOp.user) :
                lastOp.arg = "" \/ OccursIn(Chars[lastOp.arg], Serialized(e))}

\* C9 amended: with a term, listRecords returns exactly the caller's records
\* whose serialized values contain the term up to the case of its letters
\* (a record that has the term in another letter case only is returned too);
\* without a term, all of the caller's records
C9_SearchIgnoresCase ==
    ListedRecords =>
        lastOp.emps =
            {e \in EmployeesOf(employees, lastOp.user) :
                \/ lastOp.arg = ""
                \/ \E i \in 1..(Len(Serialized(e)) - Len(Chars[lastOp.arg]) + 1) :
                      SameLetters(Chars[lastOp.arg],
                                  SubSeq(Serialized(e), i, i + Len(Chars[lastOp.arg]) - 1))}

\* C9 witness: a search returned a record that has the term in another letter
\* case only, while the caller has a record and another account has one too
C9_Witness ==
    /\ ListedRecords
    /\ lastOp.arg # ""
    /\ \E e \in lastOp.emps : ~OccursIn(Chars[lastOp.arg], Serialized(e))
    /\ \E e \in DOMAIN employees : employees[e].user # lastOp.user

---------------------------------------------------------------------------
(* Claims about look-up by owner and id, and about snapshots *)

FieldWrites ==
    {"FormFieldRetrieveUpdateDestroyView.PUT", "FormFieldRetrieveUpdateDestroyView.DELETE"}

RecordWrites ==
    {"employee_edit_view.POST", "employee_delete_view",
     "EmployeeRetrieveUpdateDestroyView.PUT", "EmployeeRetrieveUpdateDestroyView.DELETE"}

\* C2: an updateField, deleteField, updateRecord or deleteRecord whose id is
\* missing or names a row of another account ends in a not-found error and
\* leaves every FieldDefinition and every Record as it was
C2_ForeignIdRejected ==
    [][/\ (/\ lastOp'.op \in FieldWrites
           /\ ~(/\ lastOp'.pk \in DOMAIN formFields
                /\ formFields[lastOp'.pk].created_by = lastOp'.user))
          => /\ lastOp'.status = "Http404"
             /\ formFields' = formFields
             /\ employees' = employees
       /\ (/\ lastOp'.op \in RecordWrites
           /\ ~(/\ lastOp'.pk \in DOMAIN employees
                /\ employees[lastOp'.pk].user = lastOp'.user))
          => /\ lastOp'.status \in {"DoesNotExist", "Http404"}
             /\ formFields' = formFields
             /\ employees' = employees]_vars

\* C2 witness: an account asked to delete the existing record of another
\* account, or to update the existing field of another account, and was told
\* the row does not exist
C2_Witness ==
    \/ /\ lastOp.op = "employee_delete_view"
       /\ lastOp.status = "DoesNotExist"
       /\ lastOp.pk \in DOMAIN employees
       /\ employees[lastOp.pk].user # lastOp.user
    \/ /\ lastOp.op = "FormFieldRetrieveUpdateDestroyView.PUT"
       /\ lastOp.status = "Http404"
       /\ lastOp.pk \in DOMAIN formFields
       /\ formFields[lastOp.pk].created_by # lastOp.user
       /\ FormFieldDataValid(lastOp.arg, FALSE)

SchemaOps ==
    {"form_design_view.POST", "FormFieldListCreateView.POST", "update_field_order"}
        \cup FieldWrites

\* C10: defineField, updateField, deleteField and reorder leave every record
\* as it was; a record's values change only by an update of that record by
\* its owner
C10_RecordsAreSnapshots ==
    [][/\ lastOp'.op \in SchemaOps => employees' = employees
       /\ \A e \in DOMAIN employees \cap DOMAIN employees' :
             employees'[e] # employees[e]
                => /\ lastOp'.op \in RecordWrites
                   /\ lastOp'.status = "ok"
                   /\ lastOp'.pk = e
                   /\ lastOp'.user = employees[e].user]_vars

\* C10 witness: after a field was renamed, retyped or deleted, a record of
\* its owner still has a label that none of the owner's fields has
C10_Witness ==
    /\ lastOp.op \in FieldWrites
    /\ lastOp.status = "ok"
    /\ \E e \in EmployeesOf(employees, lastOp.user) :
          \E k \in DictKeys(employees[e].fields) :
             k \notin LabelsOf(FieldsOf(formFields, lastOp.user))

---------------------------------------------------------------------------
(* Claims about concurrent requests *)

\* the positions of request r's order[] that name a field of its caller
OwnedPositions(r) ==
    {i \in 1..Len(r.order) : ReorderTargets(formFields, r.user, r.order[i]) # {}}

\* some but not all of the caller's fields named by r have their new order:
\* a statement done changed an order, and a field still to come is not at
\* its new order
PartlyApplied(r) ==
    \E i, j \in OwnedPositions(r) :
        /\ i <= r.idx /\ r.idx < j
        /\ r.order[i] \in DOMAIN r.start
        /\ r.start[r.order[i]].order # i - 1
        /\ formFields[r.order[j]].order # j - 1

\* the orders of the rows of base in table ff
OrdersOn(ff, base) == [f \in DOMAIN base |-> ff[f].order]

\* C8 as stated: no request of the owner reads the fields or builds a record
\* from them while some but not all of the owned ids of a reorder in
\* progress have their new order; and when two overlapping reorders of one
\* owner are both over, the fields have the orders that one of the two
\* serial executions gives
C8_ReorderAtomic ==
    [][/\ (lastOp'.op \in {"form_design_view.GET", "employee_create_view.POST"})
          => \A p \in Active :
                lastOp'.user = reorders[p].user => ~PartlyApplied(reorders[p])
       /\ \A p \in DOMAIN reorders :
             (/\ \A q \in DOMAIN reorders' : reorders'[q].pc = "done"
              /\ Len(reorders[p].peers) = 1
              /\ reorders[p].peers[1].user = reorders[p].user)
             => LET r == reorders[p]
                    base == r.base
                    mine == ReorderFrom(base, r.user, r.order, 0)
                    both1 == ReorderFrom(mine, r.user, r.peers[1].order, 0)
                    peer == ReorderFrom(base, r.user, r.peers[1].order, 0)
                    both2 == ReorderFrom(peer, r.user, r.order, 0)
                IN  OrdersOn(formFields', base)
                        \in {OrdersOn(both1, base), OrdersOn(both2, base)}]_vars

---------------------------------------------------------------------------
(* Claims about rewriting records *)

\* the maps createRecord builds from the schema of u and the submitted post,
\* one for each sequence the queryset can yield the fields in
BuiltMaps(u, post) ==
    {BuildFields(formFields, seq, post, <<>>) :
        seq \in Ordered(formFields, FieldsOf(formFields, u))}

\* every record but pk is as it was, and no record is added or removed
OthersKept(pk) ==
    /\ DOMAIN employees' = DOMAIN employees
    /\ \A e \in DOMAIN employees \ {pk} : employees'[e] = employees[e]
    /\ employees'[pk].user = employees[pk].user

\* C11 as stated: after a successful updateRecord, through the form or
\* through the API, the record's map is the map createRecord would build
\* from the owner's schema: its keys are the labels of the schema (keys of
\* labels no longer in the schema are gone), each entry has the type of a
\* field of its label, a value not submitted is null rather than the
\* previous value, and no other record is changed
C11_FullReplace ==
    [][(/\ lastOp'.status = "ok"
        /\ lastOp'.op \in {"employee_edit_view.POST",
                           "EmployeeRetrieveUpdateDestroyView.PUT"})
       => LET pk == lastOp'.pk
              new == employees'[pk].fields
              mine == FieldsOf(formFields, lastOp'.user)
          IN  /\ OthersKept(pk)
              /\ DictKeys(new) = LabelsOf(mine)
              /\ \A k \in DictKeys(new) :
                    \E f \in mine : /\ formFields[f].label = k
                                    /\ DictGet(new, k).type = formFields[f].field_type
              /\ lastOp'.op = "employee_edit_view.POST"
                    => new \in BuiltMaps(lastOp'.user, lastOp'.arg)
              /\ (/\ lastOp'.op = "EmployeeRetrieveUpdateDestroyView.PUT"
                  /\ lastOp'.arg[3] = Absent)
                    => \A k \in DictKeys(new) : DictGet(new, k).value = None]_vars

\* C11 amended: after a successful updateRecord through employee_edit_view
\* the record's map is exactly a map createRecord would build from the
\* owner's schema at that moment and the submitted values (previous keys
\* and values are gone); after a successful PATCH of the employee endpoint
\* the record's map is the "fields" of the body as sent, whatever the
\* schema, and the previous map when the body has no "fields"; in both
\* cases no other record is changed
C11_ReplaceByPath ==
    [][/\ (lastOp'.op = "employee_edit_view.POST" /\ lastOp'.status = "ok")
          => /\ OthersKept(lastOp'.pk)
             /\ employees'[lastOp'.pk].fields
                    \in BuiltMaps(lastOp'.user, lastOp'.arg)
       /\ (lastOp'.op = "EmployeeRetrieveUpdateDestroyView.PUT"
              /\ lastOp'.status = "ok")
          => /\ OthersKept(lastOp'.pk)
             /\ employees'[lastOp'.pk].fields =
                    IF lastOp'.arg[3] = Absent
                    THEN employees[lastOp'.pk].fields
                    ELSE lastOp'.arg[3][1]]_vars

\* C11 witness: an edit through the form with nothing submitted rewrote the
\* record of an owner with a field, every entry is null, and the other
\* account has a record with a value
C11_Witness ==
    /\ lastOp.op = "employee_edit_view.POST" /\ lastOp.status = "ok"
    /\ lastOp.arg = <<>>
    /\ FieldsOf(formFields, lastOp.user) # {}
    /\ \A k \in DictKeys(employees[lastOp.pk].fields) :
          DictGet(employees[lastOp.pk].fields, k).value = None
    /\ \E e \in DOMAIN employees :
          /\ employees[e].user # lastOp.user
          /\ \E k \in DictKeys(employees[e].fields) :
                DictGet(employees[e].fields, k).value = "Al"

---------------------------------------------------------------------------
(* Claims about reordering twice *)

\* the last request was a reorder that ran its loop
Reordered == lastOp.op = "update_field_order" /\ lastOp.status = "ok"

\* the last request was a reorder of two different fields of the caller
ReorderedPair ==
    /\ Reordered
    /\ Len(lastOp.arg) = 2
    /\ lastOp.arg[1] # lastOp.arg[2]
    /\ \A i \in 1..2 : ReorderTargets(formFields, lastOp.user, lastOp.arg[i]) # {}

\* the position of field f in the listing seq
PositionIn(seq, f) == CHOOSE i \in 1..Len(seq) : seq[i] = f

\* C12: a reorder(owner, ids) that follows the same reorder(owner, ids)
\* changes nothing, for every sequence of ids; after reorder(owner,
\* [id2, id1]) with both ids owned by the caller, id2 is at order 0 and id1
\* at order 1, and a listFields(owner) that follows returns id2 before id1
C12_ReorderIdempotent ==
    [][/\ (/\ Reordered /\ Reordered'
           /\ lastOp'.user = lastOp.user
           /\ lastOp'.arg = lastOp.arg)
          => formFields' = formFields
       /\ ReorderedPair'
          => /\ formFields'[lastOp'.arg[1]].order = 0
             /\ formFields'[lastOp'.arg[2]].order = 1
       /\ (/\ ReorderedPair
           /\ lastOp'.op \in {"form_design_view.GET", "FormFieldListCreateView.GET"}
           /\ lastOp'.user = lastOp.user)
          => PositionIn(lastOp'.fields, lastOp.arg[1])
                < PositionIn(lastOp'.fields, lastOp.arg[2])]_vars

\* C12 witness: reorder(owner, [2, 1]) ran on two fields of the caller that
\* were created in the sequence 1, 2; field 2 is at order 0 and field 1 at
\* order 1
C12_Witness ==
    /\ ReorderedPair
    /\ lastOp.arg = <<2, 1>>
    /\ formFields[2].order = 0
    /\ formFields[1].order = 1

---------------------------------------------------------------------------
(* Claims about repeated labels *)

\* the last request wrote a record through the create form or the edit form
WroteRecord ==
    /\ lastOp.op \in {"employee_create_view.POST", "employee_edit_view.POST"}
    /\ lastOp.status = "ok"

\* the fields of S with label l that no field of S with label l follows in
\* order
LastOfLabel(S, l) ==
    {f \in S : /\ formFields[f].label = l
               /\ \A g \in S : formFields[g].label = l
                      => formFields[g].order <= formFields[f].order}

\* C13: a record written by createRecord or updateRecord through the forms
\* has a single entry for each label of the owner's schema, also for a label
\* that several fields have: the number of keys is the number of distinct
\* labels, and the entry of a label holds the submitted value (or null) and
\* the type of a field of that label that comes last in order among the
\* fields of the label
C13_LabelsCollapse ==
    WroteRecord =>
        LET mine == FieldsOf(formFields, lastOp.user)
            values == employees[lastOp.pk].fields
        IN  /\ Len(values) = Cardinality(LabelsOf(mine))
            /\ DictKeys(values) = LabelsOf(mine)
            /\ \A l \in LabelsOf(mine) :
                  \E f \in LastOfLabel(mine, l) :
                     DictGet(values, l) = [value |-> PostGet(lastOp.arg, f),
                                           type |-> formFields[f].field_type]

\* C13 witness: an edit wrote a record for an owner with two fields of one
\* label and different types; a value was submitted for the earlier field
\* only, and the single entry holds null and the type of the later field
C13_Witness ==
    /\ WroteRecord
    /\ lastOp.op = "employee_edit_view.POST"
    /\ Len(employees[lastOp.pk].fields) = 1
    /\ \E f, g \in FieldsOf(formFields, lastOp.user) :
          /\ formFields[f].label = formFields[g].label
          /\ formFields[f].field_type # formFields[g].field_type
          /\ formFields[f].order < formFields[g].order
          /\ f \in DOMAIN lastOp.arg
          /\ g \notin DOMAIN lastOp.arg
          /\ DictGet(employees[lastOp.pk].fields, formFields[g].label) =
                [value |-> None, type |-> formFields[g].field_type]

===========================================================================
